---- MODULE Spec2Model ----
(***************************************************************************)
(* A model of package tlv (tlv.go): the TLV record codec (newTLV,          *)
(* writeRecord, readRecord, Equals) and the TLVList container (Add,        *)
(* AddRecord, Get, GetAll, Remove, RemoveRecord, Write, Read).             *)
(*                                                                         *)
(* Three specifications share the variables:                               *)
(*   Spec      the list operations, applied in any order to one TLVList;   *)
(*   SpecIO    Write of a list to a sink and Read of the bytes written,    *)
(*             for every list drawn from bounded sets;                     *)
(*   SpecCodec writeRecord / readRecord / Read on single records with      *)
(*             tags over the whole 32-bit range.                           *)
(***************************************************************************)
EXTENDS Integers, Sequences, FiniteSets, TLC

VARIABLES
    records,   \* TLVList.records: the list under test, front first
    pre,       \* the list as it was before the last operation
    op,        \* the name of the last operation
    arg,       \* the last operation's arguments
    ret,       \* what the last list operation returned
    file,      \* the bytes held by the sink / offered by the source
    origin,    \* who produced file: "none", "Write", "writeRecord", "poked"
    wr,        \* the last write: the sink it was given (silent: it reports short
               \* counts and no error; cap: the bytes it takes) and what it returned
    rd         \* the last read: what readRecord / Read returned

vars == <<records, pre, op, arg, ret, file, origin, wr, rd>>

----------------------------------------------------------------------------
(* Bounds of the model *)

\* Spec: records a list holds at most, and bytes a value holds at most
MaxRecs == 3
MaxValLen == 1
\* SpecIO and SpecCodec: the same two bounds for the lists and values written
MaxIORecs == 2
MaxIOLen == 2
\* the largest length field of a changed stream that the model reads back
MaxClaim == 255

\* byte patterns of the values: all-zero and all-0xFF runs
Bytes == {0, 255}
\* tags of the list operations, and of the lists written and read back
Tags == {1, 2}
IOTags == {-1, 16909060}
\* tags of single records: both ends of the int32 range, -1, 0, 255, 256 and
\* 0x01020304, whose four bytes differ
MinInt32 == -2147483647 - 1
MaxInt32 == 2147483647
WideTags == {MinInt32, -1, 0, 255, 256, 16909060, MaxInt32}

----------------------------------------------------------------------------
(* Errors *)

NoErr == "nil"
ErrTLVRead == "TLV read error"
ErrTLVWrite == "TLV write error"
ErrTagNotFound == "tag not found"
\* io.EOF and io.ErrUnexpectedEOF, as io.ReadFull and Read report them
EOF == "EOF"
ErrUnexpectedEOF == "unexpected EOF"
\* whatever error the sink itself reports when it fails
ErrSink == "sink error"

----------------------------------------------------------------------------
(* Records *)

\* a nil TLV
Nil == [nil |-> TRUE]

IsNil(t) == "nil" \in DOMAIN t

Run(b, n) == [i \in 1..n |-> b]

newTLV(tag, value) ==
    [tag |-> tag, length |-> Len(value), value |-> [i \in 1..Len(value) |-> value[i]]]

EqualsTagOnly(tlv1, tlv2) ==
    IF IsNil(tlv1) THEN IsNil(tlv2)
    ELSE IF IsNil(tlv2) THEN FALSE
    ELSE tlv1.tag = tlv2.tag

Equals(tlv1, tlv2) ==
    IF IsNil(tlv1) THEN IsNil(tlv2)
    ELSE IF IsNil(tlv2) THEN FALSE
    ELSE IF tlv1.tag # tlv2.tag THEN FALSE
    ELSE IF tlv1.length # tlv2.length THEN FALSE
    ELSE IF tlv1.value # tlv2.value THEN FALSE
    ELSE TRUE

----------------------------------------------------------------------------
(* The list operations, on a sequence standing for container/list *)

\* index of the first element e (from Front, by Next) with P(e), 0 if none
RECURSIVE ScanFrom(_, _, _)
ScanFrom(l, i, tag) ==
    IF i > Len(l) THEN 0
    ELSE IF l[i].tag = tag THEN i
    ELSE ScanFrom(l, i + 1, tag)

RECURSIVE ScanEqualsFrom(_, _, _)
ScanEqualsFrom(l, i, rec) ==
    IF i > Len(l) THEN 0
    ELSE IF Equals(l[i], rec) THEN i
    ELSE ScanEqualsFrom(l, i + 1, rec)

\* list.Remove(e), e the i-th element
ListRemove(l, i) == SubSeq(l, 1, i - 1) \o SubSeq(l, i + 1, Len(l))

Length(l) == Len(l)

\* pos stands for the identity of the element returned (0: none)
GetLast(l, tag) ==
    LET hits == {i \in 1..Len(l) : l[i].tag = tag} IN
    IF hits = {} THEN [rec |-> Nil, pos |-> 0, err |-> ErrTagNotFound]
    ELSE LET i == CHOOSE k \in hits : \A j \in hits : j <= k IN
         [rec |-> l[i], pos |-> i, err |-> NoErr]

Get(l, tag) ==
    LET i == ScanFrom(l, 1, tag) IN
    IF i = 0 THEN [rec |-> Nil, pos |-> 0, err |-> ErrTagNotFound]
    ELSE [rec |-> l[i], pos |-> i, err |-> NoErr]

RECURSIVE GetAllFrom(_, _, _, _)
GetAllFrom(l, i, tag, ts) ==
    IF i > Len(l) THEN ts
    ELSE IF l[i].tag = tag THEN GetAllFrom(l, i + 1, tag, Append(ts, l[i]))
    ELSE GetAllFrom(l, i + 1, tag, ts)

GetAll(l, tag) == GetAllFrom(l, 1, tag, <<>>)

\* the outer for of Remove: one scan removes the first match and breaks;
\* the loop ends with the first scan that removes nothing
RECURSIVE RemoveLoop(_, _, _)
RemoveLoop(l, tag, totalRemoved) ==
    LET i == ScanFrom(l, 1, tag) IN
    IF i = 0 THEN [list |-> l, n |-> totalRemoved]
    ELSE RemoveLoop(ListRemove(l, i), tag, totalRemoved + 1)

RemoveOnce(l, tag) ==
    LET i == ScanFrom(l, 1, tag) IN
    IF i = 0 THEN [list |-> l, n |-> 0]
    ELSE [list |-> ListRemove(l, i), n |-> 1]

Remove(l, tag) == RemoveLoop(l, tag, 0)

RECURSIVE RemoveRecordLoop(_, _, _)
RemoveRecordLoop(l, rec, totalRemoved) ==
    LET i == ScanEqualsFrom(l, 1, rec) IN
    IF i = 0 THEN [list |-> l, n |-> totalRemoved]
    ELSE RemoveRecordLoop(ListRemove(l, i), rec, totalRemoved + 1)

RemoveRecord(l, rec) == RemoveRecordLoop(l, rec, 0)

Add(l, tag, value) == Append(l, newTLV(tag, value))

AddRecord(l, rec) == Append(l, rec)

----------------------------------------------------------------------------
(* Spec: the list operations *)

Values == {Run(b, n) : b \in Bytes, n \in 0..MaxValLen}
Recs == {newTLV(t, v) : t \in Tags, v \in Values}

NoArg == [tag |-> 0, value |-> <<>>, rec |-> Nil]
NoRet == [n |-> 0, rec |-> Nil, pos |-> 0, recs |-> <<>>, err |-> NoErr]
NoWrite == [silent |-> FALSE, cap |-> 0, err |-> NoErr, refused |-> FALSE]
NoRead == [rec |-> Nil, list |-> <<>>, err |-> NoErr, panic |-> FALSE]

\* New()
Init ==
    /\ records = <<>>
    /\ pre = <<>>
    /\ op = "New"
    /\ arg = NoArg
    /\ ret = NoRet
    /\ file = <<>>
    /\ origin = "none"
    /\ wr = NoWrite
    /\ rd = NoRead

NoIO == UNCHANGED <<file, origin, wr, rd>>

AddOp(tag, value) ==
    /\ Len(records) < MaxRecs
    /\ records' = Add(records, tag, value)
    /\ pre' = records
    /\ op' = "Add"
    /\ arg' = [NoArg EXCEPT !.tag = tag, !.value = value]
    /\ ret' = NoRet
    /\ NoIO

AddRecordOp(rec) ==
    /\ Len(records) < MaxRecs
    /\ records' = AddRecord(records, rec)
    /\ pre' = records
    /\ op' = "AddRecord"
    /\ arg' = [NoArg EXCEPT !.rec = rec]
    /\ ret' = NoRet
    /\ NoIO

LengthOp ==
    /\ records' = records
    /\ pre' = records
    /\ op' = "Length"
    /\ arg' = NoArg
    /\ ret' = [NoRet EXCEPT !.n = Length(records)]
    /\ NoIO

GetOp(tag) ==
    /\ records' = records
    /\ pre' = records
    /\ op' = "Get"
    /\ arg' = [NoArg EXCEPT !.tag = tag]
    /\ ret' = LET g == Get(records, tag) IN
              [NoRet EXCEPT !.rec = g.rec, !.pos = g.pos, !.err = g.err]
    /\ NoIO

GetAllOp(tag) ==
    /\ records' = records
    /\ pre' = records
    /\ op' = "GetAll"
    /\ arg' = [NoArg EXCEPT !.tag = tag]
    /\ ret' = [NoRet EXCEPT !.recs = GetAll(records, tag)]
    /\ NoIO

RemoveOp(tag) ==
    /\ LET x == Remove(records, tag) IN
         /\ records' = x.list
         /\ ret' = [NoRet EXCEPT !.n = x.n]
    /\ pre' = records
    /\ op' = "Remove"
    /\ arg' = [NoArg EXCEPT !.tag = tag]
    /\ NoIO

RemoveRecordOp(rec) ==
    /\ LET x == RemoveRecord(records, rec) IN
         /\ records' = x.list
         /\ ret' = [NoRet EXCEPT !.n = x.n]
    /\ pre' = records
    /\ op' = "RemoveRecord"
    /\ arg' = [NoArg EXCEPT !.rec = rec]
    /\ NoIO

Next ==
    \/ \E t \in Tags, v \in Values : AddOp(t, v)
    \/ \E rec \in Recs : AddRecordOp(rec)
    \/ LengthOp
    \/ \E t \in Tags : GetOp(t)
    \/ \E t \in Tags : GetAllOp(t)
    \/ \E t \in Tags : RemoveOp(t)
    \/ \E rec \in Recs \cup {Nil} : RemoveRecordOp(rec)

Spec == Init /\ [][Next]_vars

----------------------------------------------------------------------------
(* Claims about the list operations, checked under Spec *)

CountTag(l, tag) == Cardinality({i \in 1..Len(l) : l[i].tag = tag})

\* structural equality of a list element and a (possibly nil) record
Same(e, rec) ==
    /\ ~IsNil(rec)
    /\ e.tag = rec.tag
    /\ e.length = rec.length
    /\ e.value = rec.value

LacksTag(e) == e.tag # arg.tag
DiffersFromArg(e) == ~Same(e, arg.rec)

\* C5: Remove(tag) leaves the original sequence with exactly the records of
\* that tag deleted, survivors in their order, returns the number deleted
\* (0 when none matched), and a following Get(tag) returns ErrTagNotFound.
C5_RemoveByTag ==
    op = "Remove" =>
        /\ records = SelectSeq(pre, LacksTag)
        /\ ret.n = CountTag(pre, arg.tag)
        /\ ret.n = Len(pre) - Len(records)
        /\ Get(records, arg.tag).err = ErrTagNotFound
        /\ Get(records, arg.tag).pos = 0

C5_Witness ==
    /\ op = "Remove"
    /\ Len(pre) = 3
    /\ pre[1].tag = arg.tag
    /\ pre[2].tag # arg.tag
    /\ pre[3].tag = arg.tag
    /\ ret.n = 2
    /\ records = <<pre[2]>>

\* C6: RemoveRecord(rec) deletes exactly the records with rec's tag, length
\* and value and returns their count; a record with the same tag and another
\* value stays, survivors keep their order, and with no equal record the
\* result is 0 and the list is unchanged.
C6_RemoveRecord ==
    op = "RemoveRecord" =>
        /\ records = SelectSeq(pre, DiffersFromArg)
        /\ ret.n = Cardinality({i \in 1..Len(pre) : Same(pre[i], arg.rec)})
        /\ (\A i \in 1..Len(pre) : ~Same(pre[i], arg.rec))
              => (ret.n = 0 /\ records = pre)
        /\ pre = <<>> => (ret.n = 0 /\ records = <<>>)

C6_Witness ==
    /\ op = "RemoveRecord"
    /\ ~IsNil(arg.rec)
    /\ ret.n = 2
    /\ Len(records) = 1
    /\ records[1].tag = arg.rec.tag
    /\ records[1].value # arg.rec.value

\* C7: after any sequence of Add, AddRecord, Remove and RemoveRecord, Get(tag)
\* returns the earliest record with that tag, returns ErrTagNotFound exactly
\* when no record has the tag, and leaves the list unchanged.
C7_GetFirstMatch ==
    op = "Get" =>
        /\ records = pre
        /\ ret.err \in {NoErr, ErrTagNotFound}
        /\ ret.err = ErrTagNotFound <=> (\A i \in 1..Len(records) : records[i].tag # arg.tag)
        /\ ret.err = ErrTagNotFound => IsNil(ret.rec)
        /\ ret.err = NoErr =>
              /\ ret.pos \in 1..Len(records)
              /\ ret.rec = records[ret.pos]
              /\ ret.rec.tag = arg.tag
              /\ \A j \in 1..(ret.pos - 1) : records[j].tag # arg.tag

C7_Witness ==
    /\ op = "Get"
    /\ Len(records) = 3
    /\ records[1].tag = arg.tag
    /\ records[2].tag # arg.tag
    /\ records[3].tag = arg.tag
    /\ records[3].value # records[1].value
    /\ ret.pos = 1
    /\ ret.rec = records[1]

----------------------------------------------------------------------------
(* The wire format: binary.Write / binary.Read of an int32, little-endian *)

Min(a, b) == IF a <= b THEN a ELSE b

\* the four bytes of int32(x) in two's complement, most significant first
PutInt32BE(x) ==
    LET b0 == x % 256
        x1 == (x - b0) \div 256
        b1 == x1 % 256
        x2 == (x1 - b1) \div 256
        b2 == x2 % 256
        x3 == (x2 - b2) \div 256
        b3 == x3 % 256
    IN  <<b3, b2, b1, b0>>

\* the four bytes of int32(x) in two's complement, least significant first
PutInt32(x) ==
    LET b0 == x % 256
        x1 == (x - b0) \div 256
        b1 == x1 % 256
        x2 == (x1 - b1) \div 256
        b2 == x2 % 256
        x3 == (x2 - b2) \div 256
        b3 == x3 % 256
    IN  <<b0, b1, b2, b3>>

\* the int32 that four little-endian bytes hold
GetInt32(bs) ==
    LET hi == IF bs[4] >= 128 THEN bs[4] - 256 ELSE bs[4]
    IN  ((hi * 256 + bs[3]) * 256 + bs[2]) * 256 + bs[1]

----------------------------------------------------------------------------
(* The sink (io.Writer) a write is given.  It takes left more bytes and then *)
(* refuses: kind "fail" reports an error from then on, kind "once" reports   *)
(* one error and takes everything after it, kind "short" takes what fits and *)
(* reports the short count with no error.                                    *)

SinkKinds == {"fail", "once", "short"}

NewSink(kind, cap) ==
    [buf |-> <<>>, left |-> cap, kind |-> kind, open |-> FALSE, refused |-> FALSE]

\* w.Write(p)
SinkWrite(snk, p) ==
    IF snk.open THEN
        [n |-> Len(p), err |-> NoErr, snk |-> [snk EXCEPT !.buf = @ \o p]]
    ELSE IF Len(p) <= snk.left THEN
        [n |-> Len(p), err |-> NoErr,
         snk |-> [snk EXCEPT !.buf = @ \o p, !.left = @ - Len(p)]]
    ELSE
        [n |-> snk.left,
         err |-> IF snk.kind = "short" THEN NoErr ELSE ErrSink,
         snk |-> [snk EXCEPT !.buf = @ \o SubSeq(p, 1, snk.left),
                             !.left = 0,
                             !.open = (snk.kind = "once"),
                             !.refused = TRUE]]

\* binary.Write(w, binary.LittleEndian, int32): the count w.Write returns is dropped
BinaryWrite(snk, x) ==
    LET a == SinkWrite(snk, PutInt32(x)) IN [err |-> a.err, snk |-> a.snk]

writeRecord(tlv, snk) ==
    LET a == BinaryWrite(snk, tlv.tag) IN
    IF a.err # NoErr THEN a
    ELSE LET b == BinaryWrite(a.snk, tlv.length) IN
    IF b.err # NoErr THEN b
    ELSE LET c == SinkWrite(b.snk, tlv.value) IN
    IF c.err # NoErr THEN [err |-> c.err, snk |-> c.snk]
    ELSE IF c.n # tlv.length THEN [err |-> ErrTLVWrite, snk |-> c.snk]
    ELSE [err |-> NoErr, snk |-> c.snk]

RECURSIVE WriteFrom(_, _, _)
WriteFrom(l, i, snk) ==
    IF i > Len(l) THEN [err |-> NoErr, snk |-> snk]
    ELSE LET x == writeRecord(l[i], snk) IN
         IF x.err # NoErr THEN x
         ELSE WriteFrom(l, i + 1, x.snk)

\* a Write that goes on to the next record after a failure
RECURSIVE WriteOnFrom(_, _, _, _)
WriteOnFrom(l, i, snk, err) ==
    IF i > Len(l) THEN [err |-> err, snk |-> snk]
    ELSE LET x == writeRecord(l[i], snk) IN
         WriteOnFrom(l, i + 1, x.snk, IF x.err # NoErr THEN x.err ELSE err)

WriteOn(l, snk) == WriteOnFrom(l, 1, snk, NoErr)

\* TLVList.Write
Write(l, snk) == WriteFrom(l, 1, snk)

----------------------------------------------------------------------------
(* The source (io.Reader) a read is given: the bytes s not yet read, as a   *)
(* bytes.Buffer (tlvFromBytes) or a file offers them.                        *)

\* io.ReadFull(r, bs) with len(bs) = n > 0, as binary.Read calls it
ReadFull(s, n) ==
    IF Len(s) = 0 THEN [data |-> <<>>, err |-> EOF, rest |-> s]
    ELSE IF Len(s) < n THEN [data |-> s, err |-> ErrUnexpectedEOF, rest |-> <<>>]
    ELSE [data |-> SubSeq(s, 1, n), err |-> NoErr, rest |-> SubSeq(s, n + 1, Len(s))]

\* binary.Read(r, binary.LittleEndian, &n), n an int32
BinaryRead(s) ==
    LET a == ReadFull(s, 4) IN
    [val |-> IF a.err = NoErr THEN GetInt32(a.data) ELSE 0, err |-> a.err, rest |-> a.rest]

\* r.Read(p) with len(p) = n
SrcRead(s, n) ==
    IF n = 0 THEN [n |-> 0, data |-> <<>>, err |-> NoErr, rest |-> s]
    ELSE IF Len(s) = 0 THEN [n |-> 0, data |-> <<>>, err |-> EOF, rest |-> s]
    ELSE LET k == Min(n, Len(s)) IN
         [n |-> k, data |-> SubSeq(s, 1, k), err |-> NoErr, rest |-> SubSeq(s, k + 1, Len(s))]

\* what readRecord leaves: the record and error returned, or a panic
Returned(rec, err, rest) == [rec |-> rec, err |-> err, panic |-> FALSE, rest |-> rest]
Panicked(rest) == [rec |-> Nil, err |-> NoErr, panic |-> TRUE, rest |-> rest]

readRecordNoCount(s) ==
    LET a == BinaryRead(s) IN
    IF a.err # NoErr THEN Returned(Nil, a.err, a.rest)
    ELSE LET b == BinaryRead(a.rest) IN
    IF b.err # NoErr THEN Returned(Nil, b.err, b.rest)
    ELSE IF b.val < 0 THEN Panicked(b.rest)
    ELSE LET c == SrcRead(b.rest, b.val)
             tlv == [tag |-> a.val, length |-> b.val,
                     value |-> c.data \o Run(0, b.val - c.n)]
         IN  IF c.err # NoErr THEN Returned(Nil, c.err, c.rest)
             ELSE Returned(tlv, NoErr, c.rest)

\* readRecord: make([]byte, n) with n < 0 panics; a bare return leaves rec nil
readRecord(s) ==
    LET a == BinaryRead(s) IN
    IF a.err # NoErr THEN Returned(Nil, a.err, a.rest)
    ELSE LET b == BinaryRead(a.rest) IN
    IF b.err # NoErr THEN Returned(Nil, b.err, b.rest)
    ELSE IF b.val < 0 THEN Panicked(b.rest)
    ELSE LET c == SrcRead(b.rest, b.val)
             tlv == [tag |-> a.val, length |-> b.val,
                     value |-> c.data \o Run(0, b.val - c.n)]
         IN  IF c.err # NoErr THEN Returned(Nil, c.err, c.rest)
             ELSE IF c.n # b.val THEN Returned(tlv, ErrTLVWrite, c.rest)
             ELSE Returned(tlv, NoErr, c.rest)

tlvFromBytes(rec) == readRecord(rec)

\* the for of Read: recs is returned as built, with the error or the panic
RECURSIVE ReadLoop(_, _)
ReadLoop(s, recs) ==
    LET x == readRecord(s) IN
    IF x.panic THEN [list |-> recs, err |-> NoErr, panic |-> TRUE]
    ELSE IF x.err # NoErr
         THEN [list |-> recs, err |-> IF x.err = EOF THEN NoErr ELSE x.err, panic |-> FALSE]
    ELSE ReadLoop(x.rest, Append(recs, x.rec))

\* a Read that pushes each record on the front of the list
RECURSIVE ReadFrontLoop(_, _)
ReadFrontLoop(s, recs) ==
    LET x == readRecord(s) IN
    IF x.panic THEN [list |-> recs, err |-> NoErr, panic |-> TRUE]
    ELSE IF x.err # NoErr
         THEN [list |-> recs, err |-> IF x.err = EOF THEN NoErr ELSE x.err, panic |-> FALSE]
    ELSE ReadFrontLoop(x.rest, <<x.rec>> \o recs)

ReadFront(s) == ReadFrontLoop(s, <<>>)

\* a Read that hands back an empty list with an error
ReadDiscard(s) ==
    LET x == ReadLoop(s, <<>>) IN
    IF x.err # NoErr THEN [x EXCEPT !.list = <<>>] ELSE x

Read(s) == ReadLoop(s, <<>>)

----------------------------------------------------------------------------
(* SpecIO: Write of a list, and Read of the bytes a write left or of those  *)
(* bytes with one of them changed                                            *)

IOValues == {Run(b, n) : b \in Bytes, n \in 0..MaxIOLen}
IORecs == {newTLV(t, v) : t \in IOTags, v \in IOValues}
IOLists == UNION {[1..n -> IORecs] : n \in 0..MaxIORecs}
WideRecs == {newTLV(t, v) : t \in WideTags, v \in IOValues}

\* the bytes a list takes on the wire: 8 of header and the value, per record
RECURSIVE WireLen(_)
WireLen(l) == IF l = <<>> THEN 0 ELSE 8 + Head(l).length + WireLen(Tail(l))

\* the lists Add built before the first write
InitIO ==
    /\ records \in IOLists
    /\ pre = records
    /\ op = "New"
    /\ arg = NoArg
    /\ ret = NoRet
    /\ file = <<>>
    /\ origin = "none"
    /\ wr = NoWrite
    /\ rd = NoRead

\* tl.Write(w), w a fresh sink of the given kind that refuses after cap bytes.
\* A write leaves the same state whatever was done before it, so a behaviour
\* holds one write.
WriteOp(kind, cap) ==
    /\ origin = "none"
    /\ LET x == Write(records, NewSink(kind, cap)) IN
         /\ file' = x.snk.buf
         /\ wr' = [silent |-> (kind = "short"), cap |-> cap,
                   err |-> x.err, refused |-> x.snk.refused]
    /\ origin' = "Write"
    /\ op' = "Write"
    /\ pre' = records
    /\ rd' = NoRead
    /\ UNCHANGED <<records, arg, ret>>

\* writeRecord(rec, w), w a fresh sink
WriteRecordOp(rec, kind, cap) ==
    /\ origin = "none"
    /\ LET x == writeRecord(rec, NewSink(kind, cap)) IN
         /\ file' = x.snk.buf
         /\ wr' = [silent |-> (kind = "short"), cap |-> cap,
                   err |-> x.err, refused |-> x.snk.refused]
    /\ origin' = "writeRecord"
    /\ op' = "writeRecord"
    /\ arg' = [NoArg EXCEPT !.rec = rec]
    /\ rd' = NoRead
    /\ UNCHANGED <<records, pre, ret>>

\* no length field that a reader of s meets claims more than MaxClaim bytes
RECURSIVE ClaimsWithin(_)
ClaimsWithin(s) ==
    IF Len(s) < 8 THEN TRUE
    ELSE LET n == GetInt32(SubSeq(s, 5, 8)) IN
         IF n > MaxClaim THEN FALSE
         ELSE IF n < 0 THEN TRUE
         ELSE IF Len(s) < 8 + n THEN TRUE
         ELSE ClaimsWithin(SubSeq(s, 9 + n, Len(s)))

\* a stream that was written whole reaches the reader with byte i changed to b
PokeOp(i, b) ==
    /\ origin \in {"Write", "writeRecord"}
    /\ wr.err = NoErr
    /\ ~wr.refused
    /\ i \in 1..Len(file)
    /\ file[i] # b
    /\ ClaimsWithin([file EXCEPT ![i] = b])
    /\ file' = [file EXCEPT ![i] = b]
    /\ origin' = "poked"
    /\ op' = "Poke"
    /\ wr' = NoWrite
    /\ rd' = NoRead
    /\ UNCHANGED <<records, pre, arg, ret>>

\* Read(r), r offering the bytes of file
ReadOp ==
    /\ LET x == Read(file) IN
         rd' = [rec |-> Nil, list |-> x.list, err |-> x.err, panic |-> x.panic]
    /\ op' = "Read"
    /\ UNCHANGED <<records, pre, arg, ret, file, origin, wr>>

\* readRecord(r) / tlvFromBytes(file)
ReadRecordOp ==
    /\ LET x == tlvFromBytes(file) IN
         rd' = [rec |-> x.rec, list |-> <<>>, err |-> x.err, panic |-> x.panic]
    /\ op' = "readRecord"
    /\ UNCHANGED <<records, pre, arg, ret, file, origin, wr>>

NextIO ==
    \/ \E kind \in SinkKinds, cap \in 0..WireLen(records) : WriteOp(kind, cap)
    \/ \E i \in 1..Len(file), b \in Bytes : PokeOp(i, b)
    \/ ReadOp

SpecIO == InitIO /\ [][NextIO]_vars

NextCodec ==
    \/ \E rec \in WideRecs, kind \in SinkKinds, cap \in 0..(8 + MaxIOLen) :
          cap <= 8 + rec.length /\ WriteRecordOp(rec, kind, cap)
    \/ \E i \in 1..Len(file), b \in Bytes : PokeOp(i, b)
    \/ ReadRecordOp
    \/ ReadOp

SpecCodec == Init /\ [][NextCodec]_vars

----------------------------------------------------------------------------
(* The wire format as section 6 of the specification states it, for the     *)
(* claims: a record is its tag, its length and its value; a list is its     *)
(* records one after the other.                                              *)

Encoding(tlv) == PutInt32(tlv.tag) \o PutInt32(tlv.length) \o tlv.value

RECURSIVE Serialized(_)
Serialized(l) == IF l = <<>> THEN <<>> ELSE Encoding(Head(l)) \o Serialized(Tail(l))

IsPrefix(p, s) == Len(p) <= Len(s) /\ SubSeq(s, 1, Len(p)) = p

\* the length field of the record that starts stream s
Claimed(s) == GetInt32(SubSeq(s, 5, 8))

\* stream s starts with a whole record: a header and all the bytes it claims
WholeFirst(s) ==
    IF Len(s) < 8 THEN FALSE
    ELSE IF Claimed(s) < 0 THEN FALSE
    ELSE Len(s) >= 8 + Claimed(s)

FirstRecord(s) ==
    [tag |-> GetInt32(SubSeq(s, 1, 4)), length |-> Claimed(s),
     value |-> SubSeq(s, 9, 8 + Claimed(s))]

AfterFirst(s) == SubSeq(s, 9 + Claimed(s), Len(s))

\* the whole records stream s starts with
RECURSIVE WholeRecords(_)
WholeRecords(s) ==
    IF WholeFirst(s) THEN <<FirstRecord(s)>> \o WholeRecords(AfterFirst(s)) ELSE <<>>

\* stream s ends at a record boundary: it is whole records and nothing else
RECURSIVE EndsAtBoundary(_)
EndsAtBoundary(s) ==
    IF s = <<>> THEN TRUE
    ELSE IF WholeFirst(s) THEN EndsAtBoundary(AfterFirst(s))
    ELSE FALSE

\* the first byte past the value of the k-th record of l on the wire
ValueEnd(l, k) == WireLen(SubSeq(l, 1, k))

\* a sink that takes cap bytes takes less than all of some value of l
ValueCut(l, cap) ==
    \E k \in 1..Len(l) : l[k].length > 0 /\ cap < ValueEnd(l, k)

----------------------------------------------------------------------------
(* Claims about the record codec, checked under SpecCodec *)

WroteWhole(by) == origin = by /\ ~wr.refused

\* C1: a record built by newTLV, written by writeRecord to a sink that takes
\* all its bytes and decoded from those bytes by readRecord, comes back with no
\* error and Equal to the original: same tag, same length, same value bytes.
C1_RecordRoundTrip ==
    (op = "readRecord" /\ WroteWhole("writeRecord")) =>
        /\ wr.err = NoErr
        /\ file = Encoding(arg.rec)
        /\ ~rd.panic
        /\ rd.err = NoErr
        /\ ~IsNil(rd.rec)
        /\ Equals(arg.rec, rd.rec)
        /\ rd.rec.tag = arg.rec.tag
        /\ rd.rec.length = arg.rec.length
        /\ rd.rec.value = arg.rec.value

C1_Witness ==
    /\ op = "readRecord"
    /\ WroteWhole("writeRecord")
    /\ arg.rec.tag = MinInt32
    /\ arg.rec.length = 0
    /\ rd.err = NoErr
    /\ Equals(arg.rec, rd.rec)

C10_ReadRecordTotal ==
    op \in {"readRecord", "Read"} => ~rd.panic

----------------------------------------------------------------------------
(* Claims about Write and Read of a list, checked under SpecIO *)

\* C2: a list written by Write to a sink that takes all its bytes and read
\* back by Read comes back with no error, the same Length and records
\* pairwise Equal to the originals in the same order.
C2_ListRoundTrip ==
    (op = "Read" /\ WroteWhole("Write")) =>
        /\ wr.err = NoErr
        /\ file = Serialized(records)
        /\ ~rd.panic
        /\ rd.err = NoErr
        /\ Length(rd.list) = Length(records)
        /\ \A i \in 1..Len(records) : Equals(records[i], rd.list[i])
        /\ \A i \in 1..Len(records) : Same(records[i], rd.list[i])

C2_Witness ==
    /\ op = "Read"
    /\ WroteWhole("Write")
    /\ Len(records) = 2
    /\ records[1].length > 0
    /\ records[2].length = 0
    /\ rd.err = NoErr
    /\ Len(rd.list) = 2

\* C3: Read returns a nil error only when the source ends at a record
\* boundary; a source that ends inside a record makes Read return an error.
C3_CleanOnlyAtBoundary ==
    (op = "Read" /\ ~rd.panic /\ rd.err = NoErr) => EndsAtBoundary(file)

\* C4 as claimed: when Read returns an error the caller receives no list of
\* the records decoded before the failure.
C4_ListDiscardedOnError ==
    (op = "Read" /\ ~rd.panic /\ rd.err # NoErr) => rd.list = <<>>

\* C4 as amended: when Read returns an error, it is the decode error, and the
\* list returned with it holds exactly the records decoded before the
\* failure, in stream order.
C4_PartialListReturned ==
    (op = "Read" /\ ~rd.panic /\ rd.err # NoErr) =>
        /\ rd.err \in {ErrUnexpectedEOF, ErrTLVWrite}
        /\ ~EndsAtBoundary(file)
        /\ rd.list = WholeRecords(file)

C4_Witness ==
    /\ op = "Read"
    /\ rd.err = ErrUnexpectedEOF
    /\ Len(rd.list) = 1
    /\ rd.list[1] = records[1]

\* C8: Write encodes the records in order and stops at the first failure: a
\* sink error, or a short count for the value bytes, is returned as an error;
\* nothing is written after the failure; the bytes the sink took are a prefix
\* of the full serialization; the list is unchanged.
C8_WriteStopsAtFailure ==
    op = "Write" =>
        /\ IsPrefix(file, Serialized(records))
        /\ records = pre
        /\ (wr.refused /\ ~wr.silent) => wr.err = ErrSink
        /\ (wr.silent /\ ValueCut(records, wr.cap)) => wr.err = ErrTLVWrite
        /\ wr.err # NoErr => (wr.refused /\ Len(file) = wr.cap)
        /\ ~wr.refused => (wr.err = NoErr /\ file = Serialized(records))

C8_Witness ==
    /\ op = "Write"
    /\ ~wr.silent
    /\ wr.err = ErrSink
    /\ Len(records) = 2
    /\ Len(file) > 8
    /\ Len(file) < 8 + records[1].length

====
